---- MODULE Spec2Model ----
(***************************************************************************)
(* Roblox User Verifier (src/app_fixed.py): configuration loading, the     *)
(* HTTP data-fetchers, the rule evaluators, the live-blacklist loader and  *)
(* the verification run that sequences them.                               *)
(*                                                                         *)
(* Python values are modelled as follows.                                  *)
(*   - None is the string "None"; it is only ever compared with values of  *)
(*     kinds for which the model keeps a separate tag.                     *)
(*   - A str is a sequence of one-character strings, so that lower(),      *)
(*     strip(), isdigit(), `in` and int() are computed character by        *)
(*     character.                                                          *)
(*   - A JSON value is a tagged tuple: <<"null">>, <<"int", n>>,           *)
(*     <<"float", n, frac>>, <<"bool", b>>, <<"str", chars>>,              *)
(*     <<"list", seq>>, <<"dict">>.                                        *)
(*   - A user-facing message is a tuple whose head is the message's fixed  *)
(*     text and whose tail holds the interpolated values.                  *)
(***************************************************************************)
EXTENDS Integers, Sequences, FiniteSets, TLC

None == "None"

(***************************************************************************)
(* Strings                                                                 *)
(***************************************************************************)
UpperChars == <<"A","B","C","D","E","F","G","H","I","J","K","L","M",
                "N","O","P","Q","R","S","T","U","V","W","X","Y","Z">>
LowerChars == <<"a","b","c","d","e","f","g","h","i","j","k","l","m",
                "n","o","p","q","r","s","t","u","v","w","x","y","z">>
DigitChars == <<"0","1","2","3","4","5","6","7","8","9">>

\* str.lower() on one character
LowerChar(c) ==
    IF \E i \in 1..26 : UpperChars[i] = c
    THEN LowerChars[CHOOSE i \in 1..26 : UpperChars[i] = c]
    ELSE c

\* str.lower()
Lower(s) == [i \in 1..Len(s) |-> LowerChar(s[i])]

\* ch.isdigit() for the ASCII digits
IsDigitChar(c) == \E i \in 1..10 : DigitChars[i] = c

DigitValue(c) == (CHOOSE i \in 1..10 : DigitChars[i] = c) - 1

\* `sub in s` for strings
Contains(s, sub) ==
    \E i \in 0..(Len(s) - Len(sub)) :
        \A j \in 1..Len(sub) : s[i + j] = sub[j]

\* str.isdigit(): non-empty and every character a digit
IsDigitStr(s) == Len(s) > 0 /\ \A i \in 1..Len(s) : IsDigitChar(s[i])

IsSpaceChar(c) == c = " "

RECURSIVE LStrip(_)
LStrip(s) == IF Len(s) > 0 /\ IsSpaceChar(s[1]) THEN LStrip(Tail(s)) ELSE s

RECURSIVE RStrip(_)
RStrip(s) ==
    IF Len(s) > 0 /\ IsSpaceChar(s[Len(s)])
    THEN RStrip(SubSeq(s, 1, Len(s) - 1))
    ELSE s

\* str.strip()
Strip(s) == RStrip(LStrip(s))

\* the value of a string of digits
RECURSIVE DigitsValue(_)
DigitsValue(s) ==
    IF Len(s) = 0 THEN 0
    ELSE 10 * DigitsValue(SubSeq(s, 1, Len(s) - 1)) + DigitValue(s[Len(s)])

\* int(str): surrounding blanks and one sign allowed; anything else raises.
\* The result is [ok |-> FALSE] for a raise, else [ok |-> TRUE, v |-> n].
IntOfStr(s) ==
    LET t == Strip(s)
        signed == Len(t) > 0 /\ t[1] \in {"+", "-"}
        d == IF signed THEN Tail(t) ELSE t
    IN  IF IsDigitStr(d)
        THEN [ok |-> TRUE,
              v |-> IF signed /\ t[1] = "-" THEN 0 - DigitsValue(d) ELSE DigitsValue(d)]
        ELSE [ok |-> FALSE, v |-> 0]

\* int(v) for a JSON value v
IntOf(v) ==
    CASE v[1] = "int"   -> [ok |-> TRUE, v |-> v[2]]
      [] v[1] = "bool"  -> [ok |-> TRUE, v |-> IF v[2] THEN 1 ELSE 0]
      [] v[1] = "float" -> [ok |-> TRUE, v |-> v[2]]
      [] v[1] = "str"   -> IntOfStr(v[2])
      [] OTHER          -> [ok |-> FALSE, v |-> 0]

(***************************************************************************)
(* Configuration (src/app_fixed.py lines 26-103)                           *)
(*                                                                         *)
(* A configuration source is [file |-> state of config.json, root |-> the  *)
(* JSON value it holds when it parses].  A JSON object is                  *)
(* <<"dict", f>>, f a function from the keys present to JSON values.       *)
(***************************************************************************)
EmptyDict == [k \in {} |-> <<"null">>]

\* load_config: open() raises FileNotFoundError for an absent file and
\* another OSError (PermissionError, IsADirectoryError) for an unreadable
\* one; json.load raises UnicodeDecodeError on bytes that are not UTF-8 and
\* JSONDecodeError on text that is not JSON; a root that is no object raises
\* ValueError.  Only FileNotFoundError and JSONDecodeError are caught.
load_config(source) ==
    CASE source.file = "absent"       -> [raised |-> "no", value |-> EmptyDict]
      [] source.file = "unreadable"   -> [raised |-> "OSError", value |-> EmptyDict]
      [] source.file = "undecodable"  -> [raised |-> "UnicodeDecodeError", value |-> EmptyDict]
      [] source.file = "invalid_json" -> [raised |-> "no", value |-> EmptyDict]
      [] OTHER ->
            IF source.root[1] # "dict"
            THEN [raised |-> "ValueError", value |-> EmptyDict]
            ELSE [raised |-> "no", value |-> source.root[2]]

\* dict.get(key, default)
DictGet(d, key, default) == IF key \in DOMAIN d THEN d[key] ELSE default

\* _to_int_set: a list contributes every element int() accepts, a scalar
\* contributes itself when int() accepts it, None contributes nothing.
_to_int_set(value) ==
    CASE value[1] = "null" -> {}
      [] value[1] = "list" ->
            {IntOf(value[2][i]).v : i \in {j \in 1..Len(value[2]) : IntOf(value[2][j]).ok}}
      [] OTHER -> IF IntOf(value).ok THEN {IntOf(value).v} ELSE {}

\* str(v) for the JSON scalars the model's string sets hold
StrOf(v) ==
    CASE v[1] = "str"  -> v[2]
      [] v[1] = "null" -> <<"N","o","n","e">>
      [] v[1] = "bool" -> IF v[2] THEN <<"T","r","u","e">> ELSE <<"F","a","l","s","e">>
      [] OTHER         -> <<"?">>

\* _to_str_set: every element lower-cased
_to_str_set(value) ==
    CASE value[1] = "null" -> {}
      [] value[1] = "list" -> {Lower(StrOf(value[2][i])) : i \in 1..Len(value[2])}
      [] OTHER -> {Lower(StrOf(value))}

\* _get_int_cfg: int(config.get(key, default)), the default when int() raises
_get_int_cfg(cfg, key, default) ==
    LET v == DictGet(cfg, key, <<"int", default>>)
    IN  IF IntOf(v).ok THEN IntOf(v).v ELSE default

\* The hardcoded defaults of the thresholds
DEFAULT_MIN_ACCOUNT_AGE_DAYS == 60
DEFAULT_MIN_FRIEND_COUNT == 30
DEFAULT_MIN_NON_BA_GROUP_COUNT == 13
DEFAULT_MIN_BADGE_COUNT == 300
DEFAULT_OLDEST_BADGES_TO_CHECK == 90
DEFAULT_USERNAME_DIGIT_THRESHOLD == 4
DEFAULT_MAX_BADGE_PAGES == 10
DEFAULT_REQUEST_TIMEOUT == 6

ThresholdKeys ==
    {"MIN_ACCOUNT_AGE_DAYS", "MIN_FRIEND_COUNT", "MIN_NON_BA_GROUP_COUNT",
     "MIN_BADGE_COUNT", "OLDEST_BADGES_TO_CHECK", "USERNAME_DIGIT_THRESHOLD",
     "MAX_BADGE_PAGES", "REQUEST_TIMEOUT_SECONDS"}

DefaultOf(key) ==
    CASE key = "MIN_ACCOUNT_AGE_DAYS"     -> DEFAULT_MIN_ACCOUNT_AGE_DAYS
      [] key = "MIN_FRIEND_COUNT"         -> DEFAULT_MIN_FRIEND_COUNT
      [] key = "MIN_NON_BA_GROUP_COUNT"   -> DEFAULT_MIN_NON_BA_GROUP_COUNT
      [] key = "MIN_BADGE_COUNT"          -> DEFAULT_MIN_BADGE_COUNT
      [] key = "OLDEST_BADGES_TO_CHECK"   -> DEFAULT_OLDEST_BADGES_TO_CHECK
      [] key = "USERNAME_DIGIT_THRESHOLD" -> DEFAULT_USERNAME_DIGIT_THRESHOLD
      [] key = "MAX_BADGE_PAGES"          -> DEFAULT_MAX_BADGE_PAGES
      [] OTHER                            -> DEFAULT_REQUEST_TIMEOUT

\* Lines 96-103: every threshold resolved from the loaded configuration
Thresholds(cfg) == [k \in ThresholdKeys |-> _get_int_cfg(cfg, k, DefaultOf(k))]

(***************************************************************************)
(* urllib.parse.urlparse, as far as fetch_live_blacklist reads it: the     *)
(* scheme and the hostname of a URL given as a string.                     *)
(***************************************************************************)
Letters == {UpperChars[i] : i \in 1..26} \cup {LowerChars[i] : i \in 1..26}
SchemeChars == Letters \cup {DigitChars[i] : i \in 1..10} \cup {"+", "-", "."}

\* s.find(c) + 1: the first position holding c, 0 when there is none
Find(s, c) ==
    IF \E i \in 1..Len(s) : s[i] = c
    THEN CHOOSE i \in 1..Len(s) : s[i] = c /\ \A j \in 1..(i - 1) : s[j] # c
    ELSE 0

\* s.rfind(c) + 1
RFind(s, c) ==
    IF \E i \in 1..Len(s) : s[i] = c
    THEN CHOOSE i \in 1..Len(s) : s[i] = c /\ \A j \in (i + 1)..Len(s) : s[j] # c
    ELSE 0

HasChar(s, c) == \E i \in 1..Len(s) : s[i] = c

\* urlsplit's scheme rule: the text before the first ':' is the scheme when
\* it starts with a letter and holds scheme characters only
HasScheme(u) ==
    LET i == Find(u, ":")
    IN  /\ i > 1
        /\ u[1] \in Letters
        /\ \A j \in 1..(i - 1) : u[j] \in SchemeChars

UrlScheme(u) == IF HasScheme(u) THEN Lower(SubSeq(u, 1, Find(u, ":") - 1)) ELSE <<>>

UrlRest(u) == IF HasScheme(u) THEN SubSeq(u, Find(u, ":") + 1, Len(u)) ELSE u

\* the network location: what follows '//' up to the first of / ? #
UrlNetloc(u) ==
    LET r == UrlRest(u)
    IN  IF Len(r) >= 2 /\ r[1] = "/" /\ r[2] = "/"
        THEN LET t == SubSeq(r, 3, Len(r))
                 ends == {i \in 1..Len(t) : t[i] \in {"/", "?", "#"}}
                 stop == IF ends = {} THEN Len(t) + 1
                         ELSE CHOOSE i \in ends : \A j \in ends : i <= j
             IN  SubSeq(t, 1, stop - 1)
        ELSE <<>>

\* urlsplit raises ValueError("Invalid IPv6 URL") on an unmatched bracket
UrlParseRaises(u) ==
    LET n == UrlNetloc(u)
    IN  HasChar(n, "[") # HasChar(n, "]")

\* ParseResult.hostname: after the last '@', before the port, lower-cased;
\* a bracketed host is the text between the brackets
UrlHostname(u) ==
    LET n == UrlNetloc(u)
        hostinfo == SubSeq(n, RFind(n, "@") + 1, Len(n))
        host == IF Len(hostinfo) > 0 /\ hostinfo[1] = "["
                THEN SubSeq(hostinfo, 2, Find(hostinfo, "]") - 1)
                ELSE IF HasChar(hostinfo, ":")
                     THEN SubSeq(hostinfo, 1, Find(hostinfo, ":") - 1)
                     ELSE hostinfo
    IN  Lower(host)

(***************************************************************************)
(* Live blacklist loader (src/app_fixed.py lines 381-419)                  *)
(***************************************************************************)
HttpsScheme == <<"h","t","t","p","s">>
DocsHost == <<"d","o","c","s",".","g","o","o","g","l","e",".","c","o","m">>

\* The IDs of a fetched document: every cell that, stripped, is all digits.
\* csv.reader is modelled by its result, the sequence of the cells.
CsvIds(cells) ==
    {DigitsValue(Strip(cells[i])) : i \in {j \in 1..Len(cells) : IsDigitStr(Strip(cells[j]))}}

\* A loader that looks for the allowed host anywhere in the network location
fetch_live_blacklist_host_substring(sheet_csv_url, resp) ==
    IF Len(sheet_csv_url) = 0 THEN [ids |-> {}, requested |-> FALSE]
    ELSE IF UrlParseRaises(sheet_csv_url) THEN [ids |-> {}, requested |-> FALSE]
    ELSE IF UrlScheme(sheet_csv_url) # HttpsScheme THEN [ids |-> {}, requested |-> FALSE]
    ELSE IF ~Contains(Lower(UrlNetloc(sheet_csv_url)), DocsHost)
    THEN [ids |-> {}, requested |-> FALSE]
    ELSE IF ~resp.ok THEN [ids |-> {}, requested |-> TRUE]
    ELSE [ids |-> CsvIds(resp.cells), requested |-> TRUE]

\* fetch_live_blacklist on a URL, resp being what the server would answer:
\* [ok |-> FALSE] for a failed request, [ok |-> TRUE, cells |-> ...] else.
\* requested tells whether _session.get was called.
fetch_live_blacklist(sheet_csv_url, resp) ==
    IF Len(sheet_csv_url) = 0 THEN [ids |-> {}, requested |-> FALSE]
    ELSE IF UrlParseRaises(sheet_csv_url) THEN [ids |-> {}, requested |-> FALSE]
    ELSE IF UrlScheme(sheet_csv_url) # HttpsScheme THEN [ids |-> {}, requested |-> FALSE]
    ELSE IF UrlHostname(sheet_csv_url) # DocsHost THEN [ids |-> {}, requested |-> FALSE]
    ELSE IF ~resp.ok THEN [ids |-> {}, requested |-> TRUE]
    ELSE [ids |-> CsvIds(resp.cells), requested |-> TRUE]

(***************************************************************************)
(* The configuration the verification runs are checked under: a            *)
(* config.json with small thresholds, so that every threshold is crossed   *)
(* by small inputs.  Its list entries exercise the coercions: a numeric    *)
(* string, a non-numeric entry that is dropped, mixed-case words and an    *)
(* empty word.                                                             *)
(***************************************************************************)
CfgMinAccountAgeDays == 2
CfgMinFriendCount == 2
CfgMinNonBaGroupCount == 1
CfgMinBadgeCount == 4
CfgOldestBadgesToCheck == 2
CfgUsernameDigitThreshold == 4
CfgMaxBadgePages == 3

ConfigFile ==
    [file |-> "json",
     root |-> <<"dict",
        [k \in {"FRIENDLY_OWNER_IDS", "BA_UK_GROUP_IDS", "BLACKLISTED_GROUP_IDS",
                "BA_BADGE_IDS", "IFD_BLACKLIST_IDS", "BA_BLACKLIST_IDS", "NSFW_WORDS",
                "BA_MEMBER_IMPERSONATION_LIST", "MIN_ACCOUNT_AGE_DAYS",
                "MIN_FRIEND_COUNT", "MIN_NON_BA_GROUP_COUNT", "MIN_BADGE_COUNT",
                "OLDEST_BADGES_TO_CHECK", "USERNAME_DIGIT_THRESHOLD", "MAX_BADGE_PAGES"} |->
           CASE k = "FRIENDLY_OWNER_IDS"    -> <<"list", << <<"int", 7>> >> >>
             [] k = "BA_UK_GROUP_IDS"       -> <<"list", << <<"str", <<"1","0","0">> >> >> >>
             [] k = "BLACKLISTED_GROUP_IDS" -> <<"int", 200>>
             [] k = "BA_BADGE_IDS"          -> <<"list", << <<"int", 9>>, <<"str", <<"x">> >> >> >>
             [] k = "IFD_BLACKLIST_IDS"     -> <<"list", << <<"int", 2>> >> >>
             [] k = "BA_BLACKLIST_IDS"      -> <<"list", << <<"int", 3>> >> >>
             [] k = "NSFW_WORDS"            -> <<"list", << <<"str", <<"B","a","d">> >>,
                                                            <<"str", <<>> >>,
                                                            <<"str", <<"a","D">> >> >> >>
             [] k = "BA_MEMBER_IMPERSONATION_LIST" ->
                                               <<"list", << <<"str", <<"A","d","m","i","n">> >> >> >>
             [] k = "MIN_ACCOUNT_AGE_DAYS"     -> <<"int", CfgMinAccountAgeDays>>
             [] k = "MIN_FRIEND_COUNT"         -> <<"int", CfgMinFriendCount>>
             [] k = "MIN_NON_BA_GROUP_COUNT"   -> <<"int", CfgMinNonBaGroupCount>>
             [] k = "MIN_BADGE_COUNT"          -> <<"int", CfgMinBadgeCount>>
             [] k = "OLDEST_BADGES_TO_CHECK"   -> <<"int", CfgOldestBadgesToCheck>>
             [] k = "USERNAME_DIGIT_THRESHOLD" -> <<"int", CfgUsernameDigitThreshold>>
             [] OTHER                          -> <<"int", CfgMaxBadgePages>>] >>]

\* Line 43
config == load_config(ConfigFile).value

\* Lines 79-86: the configured sets
FRIENDLY_OWNER_IDS == _to_int_set(DictGet(config, "FRIENDLY_OWNER_IDS", <<"list", <<>> >>))
BA_UK_GROUP_IDS == _to_int_set(DictGet(config, "BA_UK_GROUP_IDS", <<"list", <<>> >>))
BLACKLISTED_GROUP_IDS == _to_int_set(DictGet(config, "BLACKLISTED_GROUP_IDS", <<"list", <<>> >>))
BA_BADGE_IDS == _to_int_set(DictGet(config, "BA_BADGE_IDS", <<"list", <<>> >>))
IFD_BLACKLIST_IDS == _to_int_set(DictGet(config, "IFD_BLACKLIST_IDS", <<"list", <<>> >>))
BA_BLACKLIST_IDS == _to_int_set(DictGet(config, "BA_BLACKLIST_IDS", <<"list", <<>> >>))
NSFW_WORDS == _to_str_set(DictGet(config, "NSFW_WORDS", <<"list", <<>> >>))
BA_MEMBER_IMPERSONATION_LIST ==
    _to_str_set(DictGet(config, "BA_MEMBER_IMPERSONATION_LIST", <<"list", <<>> >>))

\* Lines 96-102: the thresholds
MIN_ACCOUNT_AGE_DAYS == _get_int_cfg(config, "MIN_ACCOUNT_AGE_DAYS", DEFAULT_MIN_ACCOUNT_AGE_DAYS)
MIN_FRIEND_COUNT == _get_int_cfg(config, "MIN_FRIEND_COUNT", DEFAULT_MIN_FRIEND_COUNT)
MIN_NON_BA_GROUP_COUNT ==
    _get_int_cfg(config, "MIN_NON_BA_GROUP_COUNT", DEFAULT_MIN_NON_BA_GROUP_COUNT)
MIN_BADGE_COUNT == _get_int_cfg(config, "MIN_BADGE_COUNT", DEFAULT_MIN_BADGE_COUNT)
OLDEST_BADGES_TO_CHECK ==
    _get_int_cfg(config, "OLDEST_BADGES_TO_CHECK", DEFAULT_OLDEST_BADGES_TO_CHECK)
USERNAME_DIGIT_THRESHOLD ==
    _get_int_cfg(config, "USERNAME_DIGIT_THRESHOLD", DEFAULT_USERNAME_DIGIT_THRESHOLD)
MAX_BADGE_PAGES == _get_int_cfg(config, "MAX_BADGE_PAGES", DEFAULT_MAX_BADGE_PAGES)

(***************************************************************************)
(* Rule evaluators (src/app_fixed.py lines 248-378)                        *)
(*                                                                         *)
(* Time is counted in hours.  A "created" value is [form, hours, off]:     *)
(* form "missing" (no key, or null), "empty" (""), "nonstr" (a value that  *)
(* is no string), "garbage" (text fromisoformat rejects), or one of the    *)
(* accepted shapes "Z", "offset", "naive", whose local time is `hours` and *)
(* whose UTC offset is `off`.                                              *)
(***************************************************************************)
HoursPerDay == 24

\* Lines 257-266: whether parsing the creation timestamp raises
ParseRaises(created) == created.form \in {"nonstr", "garbage"}

\* Lines 259-264: the instant, in UTC hours, of an accepted timestamp
ParsedInstant(created) ==
    CASE created.form = "Z"      -> created.hours
      [] created.form = "offset" -> created.hours - created.off
      [] OTHER                   -> created.hours

\* timedelta.days: whole days, rounded down
TimedeltaDays(hours) == hours \div HoursPerDay

\* An age check that also dismisses an account exactly MIN_ACCOUNT_AGE_DAYS old
check_account_age_inclusive(user_info, now) ==
    LET created_str == user_info.created IN
    IF created_str.form \in {"missing", "empty"}
    THEN [dismiss |-> FALSE, msg |-> <<"Created date not available. Manual review required.">>]
    ELSE IF ParseRaises(created_str)
    THEN [dismiss |-> FALSE, msg |-> <<"Could not parse creation date:", created_str.form>>]
    ELSE LET days_old == TimedeltaDays(now - ParsedInstant(created_str)) IN
         IF days_old <= MIN_ACCOUNT_AGE_DAYS
         THEN [dismiss |-> TRUE, msg |-> <<"Account is days old (under).", days_old, MIN_ACCOUNT_AGE_DAYS>>]
         ELSE [dismiss |-> FALSE, msg |-> <<"Account is days old.", days_old>>]

check_account_age(user_info, now) ==
    LET created_str == user_info.created IN
    IF created_str.form \in {"missing", "empty"}
    THEN [dismiss |-> FALSE, msg |-> <<"Created date not available. Manual review required.">>]
    ELSE IF ParseRaises(created_str)
    THEN [dismiss |-> FALSE, msg |-> <<"Could not parse creation date:", created_str.form>>]
    ELSE LET days_old == TimedeltaDays(now - ParsedInstant(created_str)) IN
         IF days_old < MIN_ACCOUNT_AGE_DAYS
         THEN [dismiss |-> TRUE, msg |-> <<"Account is days old (under).", days_old, MIN_ACCOUNT_AGE_DAYS>>]
         ELSE [dismiss |-> FALSE, msg |-> <<"Account is days old.", days_old>>]

\* str(user_info.get("name", "")).lower()
UsernameOf(user_info) ==
    Lower(IF user_info.name[1] = "missing" THEN <<>> ELSE StrOf(user_info.name))

\* The NSFW words the loop of lines 286-288 matches
MatchingWords(username) == {w \in NSFW_WORDS : Len(w) > 0 /\ Contains(username, w)}

CountDigits(username) == Cardinality({i \in 1..Len(username) : IsDigitChar(username[i])})

\* A username check that compares the digit count strictly
check_username_strict_digits(user_info, first) ==
    LET username == UsernameOf(user_info)
        altflag == IF Contains(username, <<"a","l","t">>)
                   THEN << <<"Username contains 'alt'.">> >> ELSE <<>>
        dismissal == IF username \in BA_MEMBER_IMPERSONATION_LIST
                     THEN <<"Username impersonates a BA member.">>
                     ELSE IF MatchingWords(username) # {}
                          THEN <<"Username contains offensive term:", first>>
                          ELSE <<>>
        digits == CountDigits(username)
        digitflag == IF digits > USERNAME_DIGIT_THRESHOLD
                     THEN << <<"Username contains digits (>=).", digits, USERNAME_DIGIT_THRESHOLD>> >>
                     ELSE <<>>
    IN  [dismissal |-> dismissal, flags |-> altflag \o digitflag]

\* check_username; `first` is the matching word the iteration over the set
\* NSFW_WORDS meets first (the order of a Python set is not fixed).
\* dismissal is <<>> for None.
check_username(user_info, first) ==
    LET username == UsernameOf(user_info)
        altflag == IF Contains(username, <<"a","l","t">>)
                   THEN << <<"Username contains 'alt'.">> >> ELSE <<>>
        dismissal == IF username \in BA_MEMBER_IMPERSONATION_LIST
                     THEN <<"Username impersonates a BA member.">>
                     ELSE IF MatchingWords(username) # {}
                          THEN <<"Username contains offensive term:", first>>
                          ELSE <<>>
        digits == CountDigits(username)
        digitflag == IF digits >= USERNAME_DIGIT_THRESHOLD
                     THEN << <<"Username contains digits (>=).", digits, USERNAME_DIGIT_THRESHOLD>> >>
                     ELSE <<>>
    IN  [dismissal |-> dismissal, flags |-> altflag \o digitflag]

(***************************************************************************)
(* A group membership is [isdict, id, name, owner]: isdict tells whether   *)
(* the item holds a "group" object; id and name are JSON values            *)
(* (<<"missing">> for an absent key); owner is <<"missing">>,              *)
(* <<"dict", userId>> or another JSON value.                               *)
(***************************************************************************)
BritishArmy == <<"b","r","i","t","i","s","h"," ","a","r","m","y">>

\* Lines 361-368
OwnerId(grp) ==
    IF grp.owner[1] = "dict" THEN IntOf(grp.owner[2]) ELSE [ok |-> FALSE, v |-> 0]

\* Lines 369-372
GroupIdInt(grp) == IntOf(grp.id)

\* str(grp.get("name", "")).lower()
GroupName(grp) == Lower(IF grp.name[1] = "missing" THEN <<>> ELSE StrOf(grp.name))

InIntSet(x, S) == x.ok /\ x.v \in S

\* A blacklist check that forgets the friendly owners
GroupDismissalsNoOwnerCheck(item) ==
    IF ~item.isdict THEN <<>>
    ELSE (IF InIntSet(GroupIdInt(item), BLACKLISTED_GROUP_IDS)
          THEN << <<"User is in a blacklisted group:", item.name>> >> ELSE <<>>)
         \o
         (IF /\ Contains(GroupName(item), BritishArmy)
             /\ ~InIntSet(GroupIdInt(item), BA_UK_GROUP_IDS)
          THEN << <<"User is in another British Army group:", item.name>> >> ELSE <<>>)

\* Lines 373-377: the dismissals of one membership
GroupDismissals(item) ==
    IF ~item.isdict THEN <<>>
    ELSE (IF InIntSet(GroupIdInt(item), BLACKLISTED_GROUP_IDS)
          THEN << <<"User is in a blacklisted group:", item.name>> >> ELSE <<>>)
         \o
         (IF /\ Contains(GroupName(item), BritishArmy)
             /\ ~InIntSet(GroupIdInt(item), BA_UK_GROUP_IDS)
             /\ ~InIntSet(OwnerId(item), FRIENDLY_OWNER_IDS)
          THEN << <<"User is in another British Army group:", item.name>> >> ELSE <<>>)

RECURSIVE AllGroupDismissals(_)
AllGroupDismissals(groups_list) ==
    IF Len(groups_list) = 0 THEN <<>>
    ELSE GroupDismissals(Head(groups_list)) \o AllGroupDismissals(Tail(groups_list))

check_blacklists(user_id, groups, ifd_blacklist) ==
    (IF user_id \in ifd_blacklist THEN << <<"User is on the IFD Blacklist.">> >> ELSE <<>>)
    \o (IF user_id \in BA_BLACKLIST_IDS THEN << <<"User is on the BA Blacklist.">> >> ELSE <<>>)
    \o AllGroupDismissals(groups)

(***************************************************************************)
(* HTTP data-fetchers (src/app_fixed.py lines 123-180).  A response is     *)
(* [ok, body]: ok is FALSE when the request raises (connection error,      *)
(* timeout, HTTP error status after the retries, a body that is not JSON   *)
(* of the expected shape).  An Optional[int] result is [ok, v], ok FALSE   *)
(* for None.                                                               *)
(***************************************************************************)
NoneInt == [ok |-> FALSE, v |-> 0]

\* body: the sequence of the "id" values of the entries of "data"
get_user_id_from_username(resp) ==
    IF ~resp.ok THEN NoneInt
    ELSE IF Len(resp.body) = 0 THEN NoneInt
    ELSE IF resp.body[1][1] = "null" THEN NoneInt
    ELSE IntOf(resp.body[1])

\* body: [isdict, created, name]
get_user_info(resp) ==
    IF ~resp.ok \/ ~resp.body.isdict
    THEN [none |-> TRUE, created |-> [form |-> "missing", hours |-> 0, off |-> 0],
          name |-> <<"missing">>]
    ELSE [none |-> FALSE, created |-> resp.body.created, name |-> resp.body.name]

\* body: the sequence of the "imageUrl" values of the entries of "data";
\* the result is <<"null">> for None
get_user_avatar_url(resp) ==
    IF ~resp.ok THEN <<"null">>
    ELSE IF Len(resp.body) = 0 THEN <<"null">>
    ELSE resp.body[1]

\* body: the value of "count"
get_friend_count(resp) ==
    IF ~resp.ok THEN NoneInt
    ELSE IF resp.body[1] = "null" THEN NoneInt
    ELSE IntOf(resp.body)

\* body: [islist, list], the value of "data"
get_user_groups(resp) ==
    IF ~resp.ok THEN [none |-> TRUE, list |-> <<>>]
    ELSE IF resp.body.islist THEN [none |-> FALSE, list |-> resp.body.list]
    ELSE [none |-> FALSE, list |-> <<>>]

(***************************************************************************)
(* check_social_activity (src/app_fixed.py lines 295-346), by the parts    *)
(* that lie between its requests                                           *)
(***************************************************************************)
\* Lines 303-306
FriendFlags(fc) ==
    IF ~fc.ok THEN << <<"Could not verify friend count.">> >>
    ELSE IF fc.v < MIN_FRIEND_COUNT
         THEN << <<"Fewer than friends.", MIN_FRIEND_COUNT, fc.v>> >>
         ELSE <<>>

\* Lines 309-324: the memberships with a usable group ID outside BA_UK_GROUP_IDS
NonBaGroupCount(groups_list) ==
    Cardinality({i \in 1..Len(groups_list) :
        /\ groups_list[i].isdict
        /\ GroupIdInt(groups_list[i]).ok
        /\ GroupIdInt(groups_list[i]).v \notin BA_UK_GROUP_IDS})

\* Lines 325-326
GroupFlags(groups_list) ==
    IF NonBaGroupCount(groups_list) < MIN_NON_BA_GROUP_COUNT
    THEN << <<"Fewer than non-BA groups.", MIN_NON_BA_GROUP_COUNT, NonBaGroupCount(groups_list)>> >>
    ELSE <<>>

\* Lines 330-331
BadgeCountFlags(count) ==
    IF count < MIN_BADGE_COUNT
    THEN << <<"Fewer than badges.", MIN_BADGE_COUNT, count>> >>
    ELSE <<>>

\* Lines 335-344: the first listed badge whose ID is in BA_BADGE_IDS
OldestBadgeFlags(oldest) ==
    LET hits == {i \in 1..Len(oldest) : InIntSet(IntOf(oldest[i]), BA_BADGE_IDS)}
    IN  IF hits = {} THEN <<>>
        ELSE << <<"BA-related badge found among oldest badges.",
                  oldest[CHOOSE i \in hits : \A j \in hits : i <= j]>> >>

Min(a, b) == IF a <= b THEN a ELSE b

\* badges[:total_limit]
Take(seq, n) == SubSeq(seq, 1, Min(Len(seq), IF n < 0 THEN Len(seq) + n ELSE n))

\* Line 334: min(OLDEST_BADGES_TO_CHECK, 100); line 587: min(30, OLDEST_BADGES_TO_CHECK)
OLDEST_SCAN_CAP == 100
REPORT_SAMPLE == 30

(***************************************************************************)
(* The inputs of a verification run: what the operator types and what the  *)
(* servers answer                                                          *)
(***************************************************************************)
NumCursors == 3       \* distinct non-empty cursors the badge endpoint hands out
NowHours == 1000      \* the clock reading of a run, in hours

Created(form, hours, off) == [form |-> form, hours |-> hours, off |-> off]

Str_bob == <<"b","o","b">>
Str_baAlt123 == <<"b","a","A","l","t","1","2","3">>
Str_Admin == <<"A","d","m","i","n">>
Str_alt9999 == <<"a","l","t","9","9","9","9">>
Str_xBADx == <<"x","B","A","D","x">>
Str_u1234 == <<"u","1","2","3","4">>
Str_ALT == <<"A","L","T">>

\* What the operator types as the username
UsernameInputs == {<<>>, <<" ">>, Str_bob}

GoodSheetUrl ==
    <<"h","t","t","p","s",":","/","/","d","o","c","s",".","g","o","o","g","l","e",".","c","o","m",
      "/","s","/","e","x","p","o","r","t">>
EvilSheetUrl ==
    <<"h","t","t","p","s",":","/","/","e","v","i","l",".","e","x","a","m","p","l","e",".","c","o","m",
      "/","x">>

\* What the operator types as the live-blacklist URL
SheetInputs == {<<>>, GoodSheetUrl}

Failure(body) == [ok |-> FALSE, body |-> body]
Success(body) == [ok |-> TRUE, body |-> body]

\* Answers of the username lookup: user 1 is on no list, user 2 on the IFD
\* blacklist, user 4 on the live blacklist below
LookupResponses ==
    {Failure(<<>>), Success(<<>>), Success(<< <<"null">> >>), Success(<< <<"int", 0>> >>),
     Success(<< <<"int", 1>> >>), Success(<< <<"int", 2>> >>), Success(<< <<"str", <<"4">> >> >>)}

ExactlyMinAge == NowHours - HoursPerDay * MIN_ACCOUNT_AGE_DAYS

Profile(created, name) ==
    [ok |-> TRUE, body |-> [isdict |-> TRUE, created |-> created, name |-> <<"str", name>>]]

\* Answers of the profile endpoint
InfoResponses ==
    {[ok |-> FALSE, body |-> [isdict |-> FALSE, created |-> Created("missing", 0, 0),
                              name |-> <<"missing">>]],
     [ok |-> TRUE, body |-> [isdict |-> FALSE, created |-> Created("missing", 0, 0),
                             name |-> <<"missing">>]],
     Profile(Created("Z", ExactlyMinAge, 0), Str_bob),
     Profile(Created("Z", ExactlyMinAge, 0), Str_baAlt123),
     Profile(Created("garbage", 0, 0), Str_bob),
     Profile(Created("Z", ExactlyMinAge + 1, 0), Str_Admin)}

Group(id, name, owner) == [isdict |-> TRUE, id |-> id, name |-> name, owner |-> owner]
NotAGroup == [isdict |-> FALSE, id |-> <<"missing">>, name |-> <<"missing">>,
              owner |-> <<"missing">>]

Str_ChessClub == <<"C","h","e","s","s"," ","C","l","u","b">>
Str_BritishArmyReserves ==
    <<"B","r","i","t","i","s","h"," ","A","r","m","y"," ","R","e","s","e","r","v","e","s">>
Str_BRITISH_ARMY == <<"B","R","I","T","I","S","H"," ","A","R","M","Y">>
Str_BritishArmoury == <<"B","r","i","t","i","s","h"," ","A","r","m","o","u","r","y">>

ChessClub == Group(<<"int", 300>>, <<"str", Str_ChessClub>>, <<"dict", <<"int", 50>> >>)
LookAlike == Group(<<"int", 101>>, <<"str", Str_BritishArmyReserves>>, <<"dict", <<"int", 50>> >>)
OfficialBA == Group(<<"int", 100>>, <<"str", Str_BRITISH_ARMY>>, <<"dict", <<"int", 50>> >>)

GroupResponses ==
    {[ok |-> FALSE, body |-> [islist |-> FALSE, list |-> <<>>]],
     [ok |-> TRUE, body |-> [islist |-> FALSE, list |-> <<>>]],
     [ok |-> TRUE, body |-> [islist |-> TRUE, list |-> <<>>]],
     [ok |-> TRUE, body |-> [islist |-> TRUE, list |-> <<ChessClub>>]],
     [ok |-> TRUE, body |-> [islist |-> TRUE, list |-> <<ChessClub, LookAlike>>]]}

\* Answers of the document host: the cells of the CSV document
SheetResponses ==
    {[ok |-> FALSE, cells |-> <<>>],
     [ok |-> TRUE, cells |-> << <<"i","d">>, <<" ","4"," ">> >>],
     [ok |-> TRUE, cells |-> << <<"n","o","n","e">> >>]}

AvatarResponses == {Failure(<<>>), Success(<<>>), Success(<< <<"str", <<"u">> >> >>)}

FriendResponses ==
    {Failure(<<"null">>), Success(<<"null">>), Success(<<"int", 0>>),
     Success(<<"int", MIN_FRIEND_COUNT>>)}

\* Badges are listed by their "id" values; 9 is in BA_BADGE_IDS
Badge5 == <<"int", 5>>
Badge9 == <<"int", 9>>

\* A page one badge short of the 100 a page request asks for (page_limit)
AlmostFullPage == [i \in 1..(OLDEST_SCAN_CAP - 1) |-> Badge5]

(***************************************************************************)
(* State                                                                   *)
(***************************************************************************)
VARIABLES
    pc,                 \* where the run stands (see the actions)
    username,           \* the sidebar's username field
    sheet_url,          \* the sidebar's live-blacklist URL field
    user_id,            \* get_user_id_from_username's result
    user_info,          \* get_user_info's result
    groups,             \* get_user_groups's result
    live_ids,           \* fetch_live_blacklist's result
    temp_ifd,           \* the IFD blacklist of this run
    now,                \* the clock reading check_account_age takes
    instant_dismissals, \* the run's instant-dismissal reasons
    red_flags,          \* the run's red flags
    activity_flags,     \* check_social_activity's red_flags
    verdict,            \* what the run has shown as its outcome
    friend_count,       \* check_social_activity's friend_count
    badge_count,        \* check_social_activity's badge_count
    oldest_badges,      \* check_social_activity's oldest_badges
    badges,             \* get_oldest_badges: badges
    total_badges,       \* get_total_badge_count: total_badges
    total_limit,        \* get_oldest_badges: total_limit
    cursor,             \* paginated fetchers: cursor
    seen_cursors,       \* paginated fetchers: seen_cursors
    pages,              \* paginated fetchers: pages
    sent,               \* history: the cursors of the page requests of the current invocation
    stopped,            \* history: what ended the loop of the current invocation
    requests,           \* history: the endpoints this run has sent a request to
    failed,             \* history: the signals whose fetch or parse failed in this run
    ran,                \* history: the checks that have run in this run
    cfg_source,         \* the state of config.json at start-up
    cfg_state,          \* start-up: "start", "ready" or "crashed"
    thresholds,         \* the thresholds start-up resolved
    stored_ifd,         \* the module-level set IFD_BLACKLIST_IDS as the script holds it
    past_live           \* history: the live-blacklist IDs of the earlier runs

runvars == <<pc, username, sheet_url, user_id, user_info, groups, live_ids, temp_ifd, now,
             instant_dismissals, red_flags, activity_flags, verdict, friend_count,
             badge_count, oldest_badges, requests, failed, ran>>
pagevars == <<badges, total_badges, total_limit, cursor, seen_cursors, pages, sent, stopped>>
cfgvars == <<cfg_source, cfg_state, thresholds>>
listvars == <<stored_ifd, past_live>>
vars == <<runvars, pagevars, cfgvars, listvars>>

\* The pages the badge endpoint answers with.  The long page is drawn only
\* under a setting of OLDEST_BADGES_TO_CHECK that the short pages cannot fill.
PageData ==
    {<<>>, <<Badge5>>, <<Badge9>>, <<Badge5, Badge9>>}
    \cup (IF thresholds["OLDEST_BADGES_TO_CHECK"] >= OLDEST_SCAN_CAP - 1
          THEN {AlmostFullPage} ELSE {})

\* Cursors are numbered; 0 stands for an absent or empty nextPageCursor
Cursors == 0..NumCursors

\* Answers of the badge endpoint to one page request
PageResponses ==
    {[ok |-> FALSE, data |-> <<>>, next |-> 0]}
    \cup {[ok |-> TRUE, data |-> d, next |-> c] : d \in PageData, c \in Cursors}

NoInfo == get_user_info([ok |-> FALSE, body |-> [isdict |-> FALSE]])
NoGroups == [none |-> TRUE, list |-> <<>>]

\* The state of a run before its first statement
RunStart ==
    /\ user_id = NoneInt
    /\ user_info = NoInfo
    /\ groups = NoGroups
    /\ live_ids = {}
    /\ temp_ifd = {}
    /\ now = 0
    /\ instant_dismissals = <<>>
    /\ red_flags = <<>>
    /\ activity_flags = <<>>
    /\ verdict = "none"
    /\ friend_count = NoneInt
    /\ badge_count = 0
    /\ oldest_badges = <<>>
    /\ requests = {}
    /\ failed = {}
    /\ ran = {}

PageStart ==
    /\ badges = <<>>
    /\ total_badges = 0
    /\ total_limit = 0
    /\ cursor = 0
    /\ seen_cursors = {}
    /\ pages = 0
    /\ sent = <<>>
    /\ stopped = "no"

\* The process after start-up under ConfigFile
CfgReady ==
    /\ cfg_source = ConfigFile
    /\ cfg_state = "ready"
    /\ thresholds = Thresholds(config)
    /\ stored_ifd = IFD_BLACKLIST_IDS
    /\ past_live = {}

Init ==
    /\ pc = "idle"
    /\ username = <<>>
    /\ sheet_url = <<>>
    /\ RunStart
    /\ PageStart
    /\ CfgReady

(***************************************************************************)
(* The verification run (src/app_fixed.py lines 451-619), one action per   *)
(* request and the statements that follow it up to the next request        *)
(***************************************************************************)
\* Lines 451-458: the button starts a run of the script with the two fields.
\* A run executes the script from its first line, so line 83 builds
\* IFD_BLACKLIST_IDS again from the configuration.
Run ==
    /\ pc \in {"idle", "done"}
    /\ \E u \in UsernameInputs, s \in SheetInputs :
          /\ username' = u
          /\ sheet_url' = s
          /\ verdict' = IF Len(u) = 0 THEN "no_username"
                        ELSE IF Len(Strip(u)) = 0 THEN "blank_username"
                        ELSE "none"
          /\ pc' = IF Len(Strip(u)) = 0 THEN "done" ELSE "resolve"
    /\ user_id' = NoneInt
    /\ user_info' = NoInfo
    /\ groups' = NoGroups
    /\ live_ids' = {}
    /\ temp_ifd' = {}
    /\ now' = 0
    /\ instant_dismissals' = <<>>
    /\ red_flags' = <<>>
    /\ activity_flags' = <<>>
    /\ friend_count' = NoneInt
    /\ badge_count' = 0
    /\ oldest_badges' = <<>>
    /\ requests' = {}
    /\ failed' = {}
    /\ ran' = {}
    /\ stored_ifd' = IFD_BLACKLIST_IDS
    /\ past_live' = past_live \cup live_ids
    /\ UNCHANGED <<pagevars, cfgvars>>

\* Lines 459-464
ResolveUser ==
    /\ pc = "resolve"
    /\ \E resp \in LookupResponses :
          /\ user_id' = get_user_id_from_username(resp)
          /\ IF ~user_id'.ok \/ user_id'.v = 0
             THEN verdict' = "not_found" /\ pc' = "done"
             ELSE verdict' = verdict /\ pc' = "info"
    /\ requests' = requests \cup {"user_lookup"}
    /\ UNCHANGED <<username, sheet_url, user_info, groups, live_ids, temp_ifd, now, instant_dismissals,
                   red_flags, activity_flags, friend_count, badge_count, oldest_badges,
                   failed, ran, pagevars, cfgvars, listvars>>

\* Line 466
FetchUserInfo ==
    /\ pc = "info"
    /\ \E resp \in InfoResponses : user_info' = get_user_info(resp)
    /\ requests' = requests \cup {"user_info"}
    /\ pc' = "groups"
    /\ UNCHANGED <<username, sheet_url, user_id, groups, live_ids, temp_ifd, now, instant_dismissals,
                   red_flags, activity_flags, verdict, friend_count, badge_count,
                   oldest_badges, failed, ran, pagevars, cfgvars, listvars>>

\* Lines 467-472 and, without a URL, 483-484
FetchGroups ==
    /\ pc = "groups"
    /\ \E resp \in GroupResponses : groups' = get_user_groups(resp)
    /\ requests' = requests \cup {"groups"}
    /\ IF user_info.none
       THEN verdict' = "error_info" /\ pc' = "done" /\ temp_ifd' = temp_ifd
       ELSE IF groups'.none
       THEN verdict' = "error_groups" /\ pc' = "done" /\ temp_ifd' = temp_ifd
       ELSE IF Len(sheet_url) > 0
       THEN verdict' = verdict /\ pc' = "live" /\ temp_ifd' = temp_ifd
       ELSE verdict' = verdict /\ pc' = "checks" /\ temp_ifd' = stored_ifd
    /\ UNCHANGED <<username, sheet_url, user_id, user_info, live_ids, now,
                   instant_dismissals, red_flags, activity_flags, friend_count, badge_count,
                   oldest_badges, failed, ran, pagevars, cfgvars, listvars>>

\* A merge that updates the module-level set in place
FetchLiveInPlace ==
    /\ pc = "live"
    /\ \E resp \in SheetResponses :
          LET got == fetch_live_blacklist(sheet_url, resp) IN
          /\ live_ids' = got.ids
          /\ stored_ifd' = stored_ifd \cup live_ids'
          /\ temp_ifd' = stored_ifd'
          /\ requests' = IF got.requested THEN requests \cup {"sheet"} ELSE requests
    /\ pc' = "checks"
    /\ past_live' = past_live
    /\ UNCHANGED <<username, sheet_url, user_id, user_info, groups, now, instant_dismissals,
                   red_flags, activity_flags, verdict, friend_count, badge_count,
                   oldest_badges, failed, ran, pagevars, cfgvars>>

\* Lines 474-482: set(IFD_BLACKLIST_IDS) | set(live_ids) builds a new set
FetchLive ==
    /\ pc = "live"
    /\ \E resp \in SheetResponses :
          LET got == fetch_live_blacklist(sheet_url, resp) IN
          /\ live_ids' = got.ids
          /\ temp_ifd' = IF live_ids' # {} THEN stored_ifd \cup live_ids'
                         ELSE stored_ifd
          /\ requests' = IF got.requested THEN requests \cup {"sheet"} ELSE requests
    /\ pc' = "checks"
    /\ UNCHANGED <<username, sheet_url, user_id, user_info, groups, now, instant_dismissals,
                   red_flags, activity_flags, verdict, friend_count, badge_count,
                   oldest_badges, failed, ran, pagevars, cfgvars, listvars>>

\* Line 496: the messages that hold "Could not parse" or "not available"
IsAgeInfoMsg(msg) ==
    msg[1] \in {"Could not parse creation date:",
                "Created date not available. Manual review required."}

\* Lines 486-506: the three checks and what they add to the two lists
run_checks(info, grps, uid, ifd, t, first) ==
    LET age == check_account_age(info, t)
        un == check_username(info, first)
    IN  [instant_dismissals |->
            (IF age.dismiss THEN <<age.msg>> ELSE <<>>)
            \o (IF un.dismissal # <<>> THEN <<un.dismissal>> ELSE <<>>)
            \o check_blacklists(uid, grps, ifd),
         red_flags |->
            (IF ~age.dismiss /\ IsAgeInfoMsg(age.msg) THEN <<age.msg>> ELSE <<>>)
            \o un.flags]

\* The words the loop over NSFW_WORDS may meet first
FirstWords(info) ==
    IF MatchingWords(UsernameOf(info)) = {} THEN {<<>>} ELSE MatchingWords(UsernameOf(info))

RunChecks ==
    /\ pc = "checks"
    /\ now' = NowHours
    /\ \E first \in FirstWords(user_info) :
          LET out == run_checks(user_info, groups.list, user_id.v, temp_ifd, now', first) IN
          /\ instant_dismissals' = out.instant_dismissals
          /\ red_flags' = out.red_flags
    /\ failed' = IF user_info.created.form \in {"missing", "empty", "nonstr", "garbage"}
                 THEN failed \cup {"created"} ELSE failed
    /\ ran' = ran \cup {"account_age", "username", "blacklists"}
    /\ pc' = "avatar"
    /\ UNCHANGED <<username, sheet_url, user_id, user_info, groups, live_ids, temp_ifd, activity_flags,
                   verdict, friend_count, badge_count, oldest_badges, requests,
                   pagevars, cfgvars, listvars>>

\* A run that shows the banner and goes on to the social checks
FetchAvatarNoStop ==
    /\ pc = "avatar"
    /\ requests' = requests \cup {"avatar"}
    /\ verdict' = IF instant_dismissals # <<>> THEN "instant_dismissal" ELSE verdict
    /\ pc' = "friends"
    /\ UNCHANGED <<username, sheet_url, user_id, user_info, groups, live_ids, temp_ifd, now,
                   instant_dismissals, red_flags, activity_flags, friend_count, badge_count,
                   oldest_badges, failed, ran, pagevars, cfgvars, listvars>>

\* Lines 509-527: the summary with the avatar (whose URL is only rendered,
\* so the answer is not kept), then the instant-dismissal banner and
\* st.stop() when there is a reason
FetchAvatar ==
    /\ pc = "avatar"
    /\ requests' = requests \cup {"avatar"}
    /\ IF instant_dismissals # <<>>
       THEN verdict' = "instant_dismissal" /\ pc' = "done"
       ELSE verdict' = verdict /\ pc' = "friends"
    /\ UNCHANGED <<username, sheet_url, user_id, user_info, groups, live_ids, temp_ifd, now,
                   instant_dismissals, red_flags, activity_flags, friend_count, badge_count,
                   oldest_badges, failed, ran, pagevars, cfgvars, listvars>>

\* get_total_badge_count's lines 215-220 and get_oldest_badges's 183-188
StartPages(limit) ==
    /\ badges' = <<>>
    /\ total_badges' = 0
    /\ total_limit' = limit
    /\ cursor' = 0
    /\ seen_cursors' = {}
    /\ pages' = 0
    /\ sent' = <<>>
    /\ stopped' = "no"

\* Lines 302-326, then the call of line 329
FetchFriendCount ==
    /\ pc = "friends"
    /\ \E resp \in FriendResponses :
          /\ friend_count' = get_friend_count(resp)
          /\ failed' = IF ~friend_count'.ok THEN failed \cup {"friend_count"} ELSE failed
    /\ requests' = requests \cup {"friend_count"}
    /\ activity_flags' = FriendFlags(friend_count') \o GroupFlags(groups.list)
    /\ ran' = ran \cup {"social_activity"}
    /\ StartPages(0)
    /\ pc' = "count"
    /\ UNCHANGED <<username, sheet_url, user_id, user_info, groups, live_ids, temp_ifd, now,
                   instant_dismissals, red_flags, verdict, badge_count, oldest_badges,
                   cfgvars, listvars>>

\* A loop that forgets the page cap
CountLoopGuardNoCap == TRUE

\* Whether get_total_badge_count's loop takes another turn (line 221)
CountLoopGuard == pages < MAX_BADGE_PAGES

\* A loop that follows a cursor it has seen before
CountPageNoCycleGuard ==
    /\ pc = "count"
    /\ CountLoopGuard
    /\ pages' = pages + 1
    /\ sent' = Append(sent, cursor)
    /\ requests' = requests \cup {"badges"}
    /\ \E resp \in PageResponses :
          IF ~resp.ok
          THEN /\ pc' = "count_return"
               /\ stopped' = "failure"
               /\ failed' = failed \cup {"badge_count"}
               /\ UNCHANGED <<total_badges, cursor, seen_cursors>>
          ELSE IF Len(resp.data) = 0
          THEN /\ pc' = "count_return"
               /\ stopped' = "empty_page"
               /\ UNCHANGED <<total_badges, cursor, seen_cursors, failed>>
          ELSE /\ total_badges' = total_badges + Len(resp.data)
               /\ failed' = failed
               /\ IF total_badges' >= MIN_BADGE_COUNT \/ resp.next = 0
                  THEN /\ pc' = "count_return"
                       /\ stopped' = IF total_badges' >= MIN_BADGE_COUNT THEN "threshold"
                                     ELSE IF resp.next = 0 THEN "empty_cursor"
                                     ELSE "seen_cursor"
                       /\ UNCHANGED <<cursor, seen_cursors>>
                  ELSE /\ pc' = "count"
                       /\ stopped' = stopped
                       /\ seen_cursors' = seen_cursors \cup {resp.next}
                       /\ cursor' = resp.next
    /\ UNCHANGED <<username, sheet_url, user_id, user_info, groups, live_ids, temp_ifd, now,
                   instant_dismissals, red_flags, activity_flags, verdict, friend_count,
                   badge_count, oldest_badges, ran, badges, total_limit, cfgvars, listvars>>

\* Lines 221-244: one turn of get_total_badge_count's loop.  The turn ends
\* the loop (pc "count_return") on a failed request, an empty page, the
\* threshold reached, an empty next cursor or a cursor seen before.
CountPage ==
    /\ pc = "count"
    /\ CountLoopGuard
    /\ pages' = pages + 1
    /\ sent' = Append(sent, cursor)
    /\ requests' = requests \cup {"badges"}
    /\ \E resp \in PageResponses :
          IF ~resp.ok
          THEN /\ pc' = "count_return"
               /\ stopped' = "failure"
               /\ failed' = failed \cup {"badge_count"}
               /\ UNCHANGED <<total_badges, cursor, seen_cursors>>
          ELSE IF Len(resp.data) = 0
          THEN /\ pc' = "count_return"
               /\ stopped' = "empty_page"
               /\ UNCHANGED <<total_badges, cursor, seen_cursors, failed>>
          ELSE /\ total_badges' = total_badges + Len(resp.data)
               /\ failed' = failed
               /\ IF total_badges' >= MIN_BADGE_COUNT \/ resp.next = 0
                     \/ resp.next \in seen_cursors
                  THEN /\ pc' = "count_return"
                       /\ stopped' = IF total_badges' >= MIN_BADGE_COUNT THEN "threshold"
                                     ELSE IF resp.next = 0 THEN "empty_cursor"
                                     ELSE "seen_cursor"
                       /\ UNCHANGED <<cursor, seen_cursors>>
                  ELSE /\ pc' = "count"
                       /\ stopped' = stopped
                       /\ seen_cursors' = seen_cursors \cup {resp.next}
                       /\ cursor' = resp.next
    /\ UNCHANGED <<username, sheet_url, user_id, user_info, groups, live_ids, temp_ifd, now,
                   instant_dismissals, red_flags, activity_flags, verdict, friend_count,
                   badge_count, oldest_badges, ran, badges, total_limit, cfgvars, listvars>>

\* Line 221 with the page cap reached: the loop ends
CountExit ==
    /\ pc = "count"
    /\ ~CountLoopGuard
    /\ pc' = "count_return"
    /\ stopped' = "loop_condition"
    /\ UNCHANGED <<username, sheet_url, user_id, user_info, groups, live_ids, temp_ifd, now,
                   instant_dismissals, red_flags, activity_flags, verdict, friend_count,
                   badge_count, oldest_badges, requests, failed, ran, badges, total_badges,
                   total_limit, cursor, seen_cursors, pages, sent, cfgvars, listvars>>

\* Lines 235/245 and 329-334: get_total_badge_count returns, the badge flag
\* is added and get_oldest_badges is called
CountReturn ==
    /\ pc = "count_return"
    /\ badge_count' = total_badges
    /\ activity_flags' = activity_flags \o BadgeCountFlags(badge_count')
    /\ StartPages(Min(thresholds["OLDEST_BADGES_TO_CHECK"], OLDEST_SCAN_CAP))
    /\ pc' = "oldest"
    /\ UNCHANGED <<username, sheet_url, user_id, user_info, groups, live_ids, temp_ifd, now,
                   instant_dismissals, red_flags, verdict, friend_count, oldest_badges,
                   requests, failed, ran, cfgvars, listvars>>

\* Whether get_oldest_badges's loop takes another turn (line 189)
OldestLoopGuard == Len(badges) < total_limit /\ pages < MAX_BADGE_PAGES

\* Lines 189-211: one turn of get_oldest_badges's loop
OldestPage ==
    /\ pc = "oldest"
    /\ OldestLoopGuard
    /\ pages' = pages + 1
    /\ sent' = Append(sent, cursor)
    /\ requests' = requests \cup {"badges"}
    /\ \E resp \in PageResponses :
          IF ~resp.ok
          THEN /\ pc' = "oldest_return"
               /\ stopped' = "failure"
               /\ failed' = failed \cup {"oldest_badges"}
               /\ UNCHANGED <<badges, cursor, seen_cursors>>
          ELSE IF Len(resp.data) = 0
          THEN /\ pc' = "oldest_return"
               /\ stopped' = "empty_page"
               /\ UNCHANGED <<badges, cursor, seen_cursors, failed>>
          ELSE /\ badges' = badges \o resp.data
               /\ failed' = failed
               /\ IF resp.next \in seen_cursors \/ resp.next = 0
                  THEN /\ pc' = "oldest_return"
                       /\ stopped' = IF resp.next \in seen_cursors THEN "seen_cursor"
                                     ELSE "empty_cursor"
                       /\ UNCHANGED <<cursor, seen_cursors>>
                  ELSE /\ pc' = "oldest"
                       /\ stopped' = stopped
                       /\ seen_cursors' = seen_cursors \cup {resp.next}
                       /\ cursor' = resp.next
    /\ UNCHANGED <<username, sheet_url, user_id, user_info, groups, live_ids, temp_ifd, now,
                   instant_dismissals, red_flags, activity_flags, verdict, friend_count,
                   badge_count, oldest_badges, ran, total_badges, total_limit, cfgvars, listvars>>

\* Line 189 with the limit or the page cap reached: the loop ends
OldestExit ==
    /\ pc = "oldest"
    /\ ~OldestLoopGuard
    /\ pc' = "oldest_return"
    /\ stopped' = "loop_condition"
    /\ UNCHANGED <<username, sheet_url, user_id, user_info, groups, live_ids, temp_ifd, now,
                   instant_dismissals, red_flags, activity_flags, verdict, friend_count,
                   badge_count, oldest_badges, requests, failed, ran, badges, total_badges,
                   total_limit, cursor, seen_cursors, pages, sent, cfgvars, listvars>>

\* A verdict that needs more than two red flags
VerdictAboveTwo(flags) == IF Len(flags) > 2 THEN "dismissed" ELSE "verified"

\* Lines 537-540
Verdict(flags) == IF Len(flags) >= 2 THEN "dismissed" ELSE "verified"

\* Lines 212, 334-346 and 531-547: get_oldest_badges returns to
\* check_social_activity, the oldest badges are scanned, the flags are merged
\* and the verdict is shown
SocialReturn ==
    /\ pc = "oldest_return"
    /\ oldest_badges' = Take(badges, total_limit)
    /\ activity_flags' = activity_flags \o OldestBadgeFlags(oldest_badges')
    /\ red_flags' = red_flags \o activity_flags'
    /\ verdict' = Verdict(red_flags')
    /\ StartPages(0)
    /\ pc' = "report"
    /\ UNCHANGED <<username, sheet_url, user_id, user_info, groups, live_ids, temp_ifd, now,
                   instant_dismissals, friend_count, badge_count, requests, failed, ran,
                   cfgvars, listvars>>

\* Lines 549-619: the tables and the downloadable report.  What they fetch
\* (the oldest badges again, at most min(30, OLDEST_BADGES_TO_CHECK) of them,
\* and the friend count again) is rendered and kept nowhere, so the model
\* keeps only that the requests are sent.
Report ==
    /\ pc = "report"
    /\ requests' = requests \cup {"friend_count"}
                   \cup (IF 0 < Min(REPORT_SAMPLE, thresholds["OLDEST_BADGES_TO_CHECK"])
                            /\ 0 < MAX_BADGE_PAGES
                         THEN {"badges"} ELSE {})
    /\ pc' = "done"
    /\ UNCHANGED <<username, sheet_url, user_id, user_info, groups, live_ids, temp_ifd, now,
                   instant_dismissals, red_flags, activity_flags, verdict, friend_count,
                   badge_count, oldest_badges, failed, ran, pagevars, cfgvars, listvars>>

Next ==
    \/ Run
    \/ ResolveUser
    \/ FetchUserInfo
    \/ FetchGroups
    \/ FetchLive
    \/ RunChecks
    \/ FetchAvatar
    \/ FetchFriendCount
    \/ CountPage
    \/ CountExit
    \/ CountReturn
    \/ OldestPage
    \/ OldestExit
    \/ SocialReturn
    \/ Report

Spec == Init /\ [][Next]_vars

(***************************************************************************)
(* The evaluators on their own: the run taken up where the live blacklist  *)
(* is fetched (any URL) or where the checks start (any profile, any        *)
(* memberships)                                                            *)
(***************************************************************************)
HttpSheetUrl ==
    <<"h","t","t","p",":","/","/","d","o","c","s",".","g","o","o","g","l","e",".","c","o","m","/","x">>
FtpSheetUrl ==
    <<"f","t","p",":","/","/","d","o","c","s",".","g","o","o","g","l","e",".","c","o","m","/","x">>
NoSchemeSheetUrl ==
    <<"d","o","c","s",".","g","o","o","g","l","e",".","c","o","m","/","x">>
SchemeRelativeSheetUrl ==
    <<"/","/","d","o","c","s",".","g","o","o","g","l","e",".","c","o","m","/","x">>
UserinfoSheetUrl ==
    <<"h","t","t","p","s",":","/","/","d","o","c","s",".","g","o","o","g","l","e",".","c","o","m",
      "@","e","v","i","l",".","c","o","m","/">>
SuffixSheetUrl ==
    <<"h","t","t","p","s",":","/","/","d","o","c","s",".","g","o","o","g","l","e",".","c","o","m",
      ".","e","v","i","l",".","c","o","m","/">>
PrefixSheetUrl ==
    <<"h","t","t","p","s",":","/","/","x","d","o","c","s",".","g","o","o","g","l","e",".","c","o","m","/">>
ParentSheetUrl ==
    <<"h","t","t","p","s",":","/","/","g","o","o","g","l","e",".","c","o","m","/">>
PathSheetUrl ==
    <<"h","t","t","p","s",":","/","/","e","v","i","l",".","c","o","m","/",
      "d","o","c","s",".","g","o","o","g","l","e",".","c","o","m">>
NoSlashesSheetUrl ==
    <<"h","t","t","p","s",":","d","o","c","s",".","g","o","o","g","l","e",".","c","o","m">>
BracketSheetUrl ==
    <<"h","t","t","p","s",":","/","/","[","d","o","c","s",".","g","o","o","g","l","e",".","c","o","m","/">>
NoHostSheetUrl == <<"h","t","t","p","s",":","/","/","/","x">>
UpperSheetUrl ==
    <<"H","T","T","P","S",":","/","/","D","o","c","s",".","G","O","O","G","L","E",".","c","o","m","/","x">>
PortSheetUrl ==
    <<"h","t","t","p","s",":","/","/","d","o","c","s",".","g","o","o","g","l","e",".","c","o","m",
      ":","4","4","3","/","x">>
UserAtDocsSheetUrl ==
    <<"h","t","t","p","s",":","/","/","u","@","d","o","c","s",".","g","o","o","g","l","e",".","c","o","m","?","x">>

\* URLs whose scheme is not https or whose host is not docs.google.com
\* (their scheme and host are the ones urllib.parse.urlparse reports)
ForeignSheetUrls ==
    {EvilSheetUrl, HttpSheetUrl, FtpSheetUrl, NoSchemeSheetUrl, SchemeRelativeSheetUrl,
     UserinfoSheetUrl, SuffixSheetUrl, PrefixSheetUrl, ParentSheetUrl, PathSheetUrl,
     NoSlashesSheetUrl, BracketSheetUrl, NoHostSheetUrl}

\* https URLs of the host docs.google.com
DocsSheetUrls == {GoodSheetUrl, UpperSheetUrl, PortSheetUrl, UserAtDocsSheetUrl}

AnySheetUrls == ForeignSheetUrls \cup DocsSheetUrls

AnyCreated ==
    {Created("Z", ExactlyMinAge, 0), Created("Z", ExactlyMinAge + 1, 0),
     Created("Z", ExactlyMinAge + HoursPerDay, 0), Created("Z", ExactlyMinAge - 1, 0),
     Created("Z", NowHours + 5, 0), Created("Z", 0, 0),
     Created("offset", ExactlyMinAge + 1, 2), Created("offset", ExactlyMinAge - 1, 0 - 2),
     Created("naive", ExactlyMinAge, 0), Created("naive", ExactlyMinAge + 1, 0),
     Created("missing", 0, 0), Created("empty", 0, 0), Created("garbage", 0, 0),
     Created("nonstr", 0, 0)}

Str_admin1 == <<"a","d","m","i","n","1">>
Str_Bad == <<"B","a","d">>
Str_s4lt == <<"s","4","l","t","1","2","3">>

AnyNames ==
    {<<"missing">>, <<"null">>, <<"str", <<>> >>, <<"str", Str_bob>>, <<"str", Str_baAlt123>>,
     <<"str", Str_Admin>>, <<"str", Str_admin1>>, <<"str", Str_xBADx>>, <<"str", Str_Bad>>,
     <<"str", Str_u1234>>, <<"str", Str_ALT>>, <<"str", Str_alt9999>>, <<"str", Str_s4lt>>}

Owner(n) == <<"dict", <<"int", n>> >>

AnyGroupLists ==
    {<<>>,
     <<ChessClub>>,
     <<LookAlike>>,
     <<Group(<<"int", 101>>, <<"str", Str_BritishArmyReserves>>, Owner(7))>>,
     <<Group(<<"int", 101>>, <<"str", Str_BritishArmyReserves>>, <<"dict", <<"str", <<"7">> >> >>)>>,
     <<Group(<<"int", 101>>, <<"str", Str_BritishArmyReserves>>, <<"int", 7>>)>>,
     <<Group(<<"int", 101>>, <<"str", Str_BritishArmyReserves>>, <<"missing">>)>>,
     <<Group(<<"int", 101>>, <<"str", Str_BritishArmyReserves>>, <<"dict", <<"null">> >>)>>,
     <<Group(<<"missing">>, <<"str", Str_BRITISH_ARMY>>, Owner(50))>>,
     <<Group(<<"str", <<"1","0","0">> >>, <<"str", Str_BRITISH_ARMY>>, Owner(50))>>,
     <<OfficialBA>>,
     <<Group(<<"int", 102>>, <<"str", Str_BritishArmoury>>, Owner(50))>>,
     <<Group(<<"int", 103>>, <<"missing">>, Owner(50))>>,
     <<Group(<<"int", 200>>, <<"str", Str_ChessClub>>, Owner(50))>>,
     <<Group(<<"int", 200>>, <<"str", Str_BRITISH_ARMY>>, <<"missing">>)>>,
     <<NotAGroup, LookAlike, ChessClub,
       Group(<<"int", 104>>, <<"str", Str_BRITISH_ARMY>>, Owner(51)), OfficialBA>>}

\* The run at the live-blacklist fetch, for any URL typed
InitLive ==
    /\ pc = "live"
    /\ username = Str_bob
    /\ sheet_url \in AnySheetUrls
    /\ user_id = [ok |-> TRUE, v |-> 4]
    /\ user_info = get_user_info(Profile(Created("Z", ExactlyMinAge, 0), Str_bob))
    /\ groups = [none |-> FALSE, list |-> <<ChessClub>>]
    /\ live_ids = {}
    /\ temp_ifd = {}
    /\ requests = {"user_lookup", "user_info", "groups"}

\* The run at the checks, for any profile, memberships and account
InitChecks ==
    /\ pc = "checks"
    /\ username = Str_bob
    /\ sheet_url = <<>>
    /\ user_id \in {[ok |-> TRUE, v |-> u] : u \in {1, 2, 3}}
    /\ \E c \in AnyCreated, n \in AnyNames :
          user_info = [none |-> FALSE, created |-> c, name |-> n]
    /\ \E l \in AnyGroupLists : groups = [none |-> FALSE, list |-> l]
    /\ live_ids = {}
    /\ temp_ifd = IFD_BLACKLIST_IDS
    /\ requests = {"user_lookup", "user_info", "groups"}

InitEvaluators ==
    /\ InitLive \/ InitChecks
    /\ now = 0
    /\ instant_dismissals = <<>>
    /\ red_flags = <<>>
    /\ activity_flags = <<>>
    /\ verdict = "none"
    /\ friend_count = NoneInt
    /\ badge_count = 0
    /\ oldest_badges = <<>>
    /\ failed = {}
    /\ ran = {}
    /\ PageStart
    /\ CfgReady

NextEvaluators == FetchLive \/ RunChecks

SpecChecks == InitEvaluators /\ [][NextEvaluators]_vars

(***************************************************************************)
(* Start-up (src/app_fixed.py lines 43 and 96-103): the configuration is   *)
(* loaded and the thresholds are resolved, whatever config.json holds      *)
(***************************************************************************)
Str_7 == <<"7">>
Str_abc == <<"a","b","c">>

\* What a key of the configuration object may hold; <<"absent">> for no key
CfgValues ==
    {<<"absent">>, <<"int", 7>>, <<"str", Str_7>>, <<"str", Str_abc>>, <<"null">>,
     <<"float", 7, 5>>, <<"bool", TRUE>>, <<"list", << <<"int", 7>> >> >>}

CfgObject(a, b) ==
    [k \in {x \in {"MIN_ACCOUNT_AGE_DAYS"} : a # <<"absent">>}
           \cup {x \in {"MAX_BADGE_PAGES"} : b # <<"absent">>} |->
        IF k = "MIN_ACCOUNT_AGE_DAYS" THEN a ELSE b]

ConfigSources ==
    {[file |-> f, root |-> <<"null">>] : f \in {"absent", "unreadable", "undecodable", "invalid_json"}}
    \cup {[file |-> "json", root |-> r] :
             r \in {<<"null">>, <<"int", 7>>, <<"str", Str_abc>>, <<"list", <<>> >>}}
    \cup {[file |-> "json", root |-> <<"dict", CfgObject(a, b)>>] : a \in CfgValues, b \in CfgValues}

InitConfig ==
    /\ cfg_source \in ConfigSources
    /\ cfg_state = "start"
    /\ thresholds = [k \in ThresholdKeys |-> 0]
    /\ stored_ifd = {}
    /\ past_live = {}
    /\ pc = "idle"
    /\ username = <<>>
    /\ sheet_url = <<>>
    /\ RunStart
    /\ PageStart

\* Lines 43 and 96-103: an exception load_config lets through ends the process
LoadConfig ==
    /\ cfg_state = "start"
    /\ LET out == load_config(cfg_source) IN
          IF out.raised # "no"
          THEN cfg_state' = "crashed" /\ thresholds' = thresholds
          ELSE cfg_state' = "ready" /\ thresholds' = Thresholds(out.value)
    /\ UNCHANGED <<cfg_source, runvars, pagevars, listvars>>

SpecConfig == InitConfig /\ [][LoadConfig]_vars


(***************************************************************************)
(* The oldest-badge scan on its own (src/app_fixed.py lines 333-344): the  *)
(* run taken up where get_total_badge_count has returned, under a          *)
(* config.json with any setting of OLDEST_BADGES_TO_CHECK                  *)
(***************************************************************************)
\* Settings of OLDEST_BADGES_TO_CHECK, up to and past the 100 of line 334
OldestSettings == {0, 1, 2, OLDEST_SCAN_CAP - 1, OLDEST_SCAN_CAP, OLDEST_SCAN_CAP + 1}

OldestConfigFile(n) ==
    [ConfigFile EXCEPT !.root =
        <<"dict", [ConfigFile.root[2] EXCEPT !["OLDEST_BADGES_TO_CHECK"] = <<"int", n>>]>>]

InitOldest ==
    /\ pc = "count_return"
    /\ username = Str_bob
    /\ sheet_url = <<>>
    /\ user_id = [ok |-> TRUE, v |-> 1]
    /\ user_info = get_user_info(Profile(Created("Z", ExactlyMinAge, 0), Str_bob))
    /\ groups = [none |-> FALSE, list |-> <<ChessClub>>]
    /\ live_ids = {}
    /\ temp_ifd = IFD_BLACKLIST_IDS
    /\ now = NowHours
    /\ instant_dismissals = <<>>
    /\ red_flags = <<>>
    /\ friend_count = [ok |-> TRUE, v |-> MIN_FRIEND_COUNT]
    /\ activity_flags = FriendFlags(friend_count) \o GroupFlags(groups.list)
    /\ verdict = "none"
    /\ badge_count = 0
    /\ oldest_badges = <<>>
    /\ requests = {"user_lookup", "user_info", "groups", "avatar", "friend_count", "badges"}
    /\ failed = {}
    /\ ran = {"account_age", "username", "blacklists", "social_activity"}
    /\ badges = <<>>
    /\ total_badges \in {1, MIN_BADGE_COUNT}
    /\ total_limit = 0
    /\ cursor = 0
    /\ seen_cursors = {}
    /\ pages = 1
    /\ sent = <<0>>
    /\ stopped = IF total_badges >= MIN_BADGE_COUNT THEN "threshold" ELSE "empty_cursor"
    /\ \E n \in OldestSettings :
          /\ cfg_source = OldestConfigFile(n)
          /\ thresholds = Thresholds(load_config(cfg_source).value)
    /\ cfg_state = "ready"
    /\ stored_ifd = IFD_BLACKLIST_IDS
    /\ past_live = {}

NextOldest == CountReturn \/ OldestPage \/ OldestExit \/ SocialReturn

SpecOldest == InitOldest /\ [][NextOldest]_vars

(***************************************************************************)
(* Properties                                                              *)
(***************************************************************************)
InPageLoop == pc \in {"count", "oldest"}

ChecksDone == "account_age" \in ran

Count(b) == IF b THEN 1 ELSE 0

HasHead(list, heads) == \E i \in 1..Len(list) : list[i][1] \in heads

\* C2: the account-age, username and blacklist checks all run and their
\* reasons are collected together (one entry per reason of each check); a
\* run with a reason ends with the instant-dismissal verdict at the banner
\* and sends no friend-count or badge request; the social-activity check
\* runs only in a run without a reason.
C2_InstantDismissalShortCircuits ==
    /\ ChecksDone =>
          /\ {"account_age", "username", "blacklists"} \subseteq ran
          /\ Len(instant_dismissals) =
                Count(check_account_age(user_info, now).dismiss)
                + Count(check_username(user_info, <<>>).dismissal # <<>>)
                + Len(check_blacklists(user_id.v, groups.list, temp_ifd))
    /\ ~ChecksDone => instant_dismissals = <<>>
    /\ instant_dismissals # <<>> =>
          /\ pc \in {"avatar", "done"}
          /\ pc = "done" => verdict = "instant_dismissal"
          /\ requests \cap {"friend_count", "badges"} = {}
          /\ "social_activity" \notin ran
    /\ verdict = "instant_dismissal" => instant_dismissals # <<>>

\* A run dismissed for its age, its username and a blacklist at once
C2_Witness ==
    /\ pc = "done"
    /\ verdict = "instant_dismissal"
    /\ HasHead(instant_dismissals, {"Account is days old (under)."})
    /\ HasHead(instant_dismissals, {"Username impersonates a BA member."})
    /\ HasHead(instant_dismissals, {"User is on the IFD Blacklist."})
    /\ "avatar" \in requests

\* The red flags of a finished run, counted from what the run fetched: the
\* age-information flag, the username flags and the social-activity flags
CombinedRedFlagCount ==
    Count(user_info.created.form \in {"missing", "empty", "nonstr", "garbage"})
    + Count(Contains(UsernameOf(user_info), <<"a","l","t">>))
    + Count(CountDigits(UsernameOf(user_info)) >= USERNAME_DIGIT_THRESHOLD)
    + Count(~friend_count.ok \/ friend_count.v < MIN_FRIEND_COUNT)
    + Count(NonBaGroupCount(groups.list) < MIN_NON_BA_GROUP_COUNT)
    + Count(badge_count < MIN_BADGE_COUNT)
    + Count(\E i \in 1..Len(oldest_badges) : InIntSet(IntOf(oldest_badges[i]), BA_BADGE_IDS))

SocialDone == pc \in {"report", "done"} /\ "social_activity" \in ran

\* C3: a run without an instant-dismissal reason ends "dismissed" when its
\* combined red-flag count is 2 or more and "verified" otherwise.
C3_VerdictByRedFlagCount ==
    SocialDone =>
        /\ instant_dismissals = <<>>
        /\ Len(red_flags) = CombinedRedFlagCount
        /\ verdict = (IF CombinedRedFlagCount >= 2 THEN "dismissed" ELSE "verified")

\* A run dismissed with exactly two red flags, one from the username and one
\* from the social activity
C3_Witness ==
    /\ pc = "done"
    /\ verdict = "dismissed"
    /\ Len(red_flags) = 2
    /\ Len(activity_flags) = 1
    /\ HasHead(red_flags, {"Username contains 'alt'."})

\* C4: start-up never fails on a bad configuration: loading completes
\* without raising, and every threshold is its coerced configured value or
\* its hardcoded default.
C4_StartupNeverFails ==
    /\ cfg_state # "crashed"
    /\ cfg_state = "ready" =>
          \A k \in ThresholdKeys :
             \/ thresholds[k] = DefaultOf(k)
             \/ /\ cfg_source.file = "json"
                /\ cfg_source.root[1] = "dict"
                /\ k \in DOMAIN cfg_source.root[2]
                /\ IntOf(cfg_source.root[2][k]).ok
                /\ thresholds[k] = IntOf(cfg_source.root[2][k]).v

AgeDismissed == HasHead(instant_dismissals, {"Account is days old (under)."})

\* The hours between the creation instant (UTC) and the clock reading
ElapsedHours ==
    now - (user_info.created.hours
           - (IF user_info.created.form = "offset" THEN user_info.created.off ELSE 0))

\* C5: the account-age check dismisses exactly when the creation timestamp
\* is present, parses, and lies less than MIN_ACCOUNT_AGE_DAYS whole days
\* back: an account of exactly that age is kept, a younger one dismissed,
\* a missing or unparseable timestamp never dismissed.
C5_AgeDismissalStrict ==
    ChecksDone =>
        (AgeDismissed <=>
            /\ user_info.created.form \in {"Z", "offset", "naive"}
            /\ ElapsedHours < HoursPerDay * MIN_ACCOUNT_AGE_DAYS)

\* An account exactly MIN_ACCOUNT_AGE_DAYS days old has passed the age check
C5_Witness ==
    /\ ChecksDone
    /\ user_info.created = Created("Z", ExactlyMinAge, 0)
    /\ ~AgeDismissed

\* C6: for a URL whose scheme is not https or whose host is not
\* docs.google.com the live-blacklist fetch completes with the empty set and
\* sends no request to the document host.
C6_ForeignUrlRejectedBeforeRequest ==
    (sheet_url \in ForeignSheetUrls /\ pc # "live") =>
          /\ live_ids = {}
          /\ "sheet" \notin requests
          /\ temp_ifd = IFD_BLACKLIST_IDS

\* The URL that names the allowed host as its user part has been rejected
C6_Witness ==
    /\ sheet_url = UserinfoSheetUrl
    /\ pc = "checks"
    /\ live_ids = {}
    /\ "sheet" \notin requests

\* C7: a fetcher whose request failed returns an explicit unknown value,
\* one that no successful fetch returns: never a number for the friend
\* count or the total badge count, never a list for the oldest badges.
C7_FailedFetchReturnsUnknown ==
    /\ ("friend_count" \in failed /\ pc \notin {"friends"}) => ~friend_count.ok
    /\ ("badge_count" \in failed /\ pc \in {"oldest", "oldest_return", "report", "done"}) =>
          badge_count \notin Nat
    /\ ("oldest_badges" \in failed /\ pc \in {"report", "done"}) =>
          oldest_badges \notin Seq({Badge5, Badge9})

\* The red flag a signal's failure would have to leave
FlagHeadsFor(signal) ==
    CASE signal = "created" -> {"Could not parse creation date:",
                                "Created date not available. Manual review required."}
      [] signal = "friend_count" -> {"Could not verify friend count."}
      [] signal = "badge_count" -> {"Fewer than badges."}
      [] OTHER -> {"BA-related badge found among oldest badges."}

\* C8: in a run that ends "verified", every signal whose fetch or parse
\* failed has a red flag in the run's red-flag list.
C8_NoSilentPassOnMissingData ==
    (verdict = "verified" /\ pc \in {"report", "done"}) =>
        \A signal \in failed : HasHead(red_flags, FlagHeadsFor(signal))

LookAlikeHead == "User is in another British Army group:"

\* Whether a membership is one of a look-alike group, from its fields
IsLookAlike(item) ==
    /\ item.isdict
    /\ Contains(Lower(IF item.name[1] = "str" THEN item.name[2] ELSE <<>>), BritishArmy)
    /\ ~(IntOf(item.id).ok /\ IntOf(item.id).v \in BA_UK_GROUP_IDS)
    /\ ~(/\ item.owner[1] = "dict"
         /\ IntOf(item.owner[2]).ok
         /\ IntOf(item.owner[2]).v \in FRIENDLY_OWNER_IDS)

IsLookAlikeMsg(msg) == msg[1] = LookAlikeHead

\* C9: check_blacklists adds a look-alike dismissal for a membership exactly
\* when the group's name holds "british army" in any case, its ID is not in
\* BA_UK_GROUP_IDS and its owner is not in FRIENDLY_OWNER_IDS (a missing
\* owner is not friendly): the look-alike dismissals are, in order, those of
\* the memberships that meet the three conditions.
C9_LookAlikeGroupDismissal ==
    ChecksDone =>
        LET msgs == SelectSeq(instant_dismissals, IsLookAlikeMsg)
            hits == SelectSeq(groups.list, IsLookAlike)
        IN  /\ Len(msgs) = Len(hits)
            /\ \A i \in 1..Len(msgs) : msgs[i][2] = hits[i].name

\* "British Army Reserves", owned by a stranger and not a recognised group,
\* has been dismissed by name
C9_Witness ==
    /\ ChecksDone
    /\ groups.list = <<LookAlike>>
    /\ \E i \in 1..Len(instant_dismissals) :
          instant_dismissals[i] = <<LookAlikeHead, <<"str", Str_BritishArmyReserves>> >>

UsernameDismissed ==
    HasHead(instant_dismissals, {"Username impersonates a BA member.",
                                 "Username contains offensive term:"})

IfdHead == "User is on the IFD Blacklist."

\* C11: the live blacklist is merged for one run only.  Across any sequence
\* of runs the set IFD_BLACKLIST_IDS stays what the configuration gives; the
\* IFD blacklist a run checks against is the configured set joined with the
\* live IDs of that run alone; so a run whose live blacklist is empty (no
\* URL, or a URL that yields no IDs) dismisses an account for the IFD
\* blacklist only when the configured set holds it, whatever the live
\* blacklists of the earlier runs held.
C11_LiveBlacklistOneRunOnly ==
    /\ stored_ifd = IFD_BLACKLIST_IDS
    /\ pc \in {"checks", "avatar"} => temp_ifd = IFD_BLACKLIST_IDS \cup live_ids
    /\ "blacklists" \in ran =>
          /\ HasHead(instant_dismissals, {IfdHead})
                <=> user_id.v \in IFD_BLACKLIST_IDS \cup live_ids
          /\ (live_ids = {} /\ user_id.v \in past_live \ IFD_BLACKLIST_IDS)
                => ~HasHead(instant_dismissals, {IfdHead})

\* An account that was only on the live blacklist of an earlier run has been
\* checked in a run without live IDs and has not been dismissed for it
C11_Witness ==
    /\ "blacklists" \in ran
    /\ live_ids = {}
    /\ user_id.v \in past_live \ IFD_BLACKLIST_IDS
    /\ ~HasHead(instant_dismissals, {IfdHead})
    /\ stored_ifd = IFD_BLACKLIST_IDS

Verdicts == {"instant_dismissal", "dismissed", "verified"}

Resolved == user_id.ok /\ user_id.v # 0

\* C12: once the username has resolved to an account ID, the run ends with
\* a verdict (instant dismissal, dismissed or verified), whichever of the
\* later fetches fail: a run that has ended after resolving the account
\* shows one of the three verdicts.
C12_ResolvedRunEndsWithVerdict ==
    (pc = "done" /\ Resolved) => verdict \in Verdicts

BaFlagHead == "BA-related badge found among oldest badges."

BaFlagCount(flags) == Cardinality({i \in 1..Len(flags) : flags[i][1] = BaFlagHead})

IsBaBadge(badge) == InIntSet(IntOf(badge), BA_BADGE_IDS)

\* C13: the social-activity check scans the oldest N badges of the account,
\* N = OLDEST_BADGES_TO_CHECK, for every configured N: when the scan ends,
\* the check has added one notable-badge red flag if one of the first N
\* badges of the oldest-first listing has an ID in BA_BADGE_IDS, and none
\* otherwise.
C13_OldestNBadgesScanned ==
    [][SocialReturn =>
          LET oldestN == Take(badges, thresholds["OLDEST_BADGES_TO_CHECK"])
          IN  BaFlagCount(activity_flags') =
                 (IF \E i \in 1..Len(oldestN) : IsBaBadge(oldestN[i]) THEN 1 ELSE 0)]_vars

IsPrefix(a, b) == Len(a) <= Len(b) /\ SubSeq(b, 1, Len(a)) = a

PageTurn == CountPage \/ OldestPage

====
